---- MODULE Spec2Model ----
(***************************************************************************)
(* peer-node (src/src/index.js): Host, Peer and Node.                      *)
(*                                                                         *)
(* Bytes are naturals 0..255, Buffers and Strings are sequences of bytes   *)
(* (a String is the sequence of its character codes).  `null' is Null.     *)
(* A Peer object is a record of its fields; the handlers of the class are  *)
(* operators taking the record and returning the record after the call     *)
(* together with the notifications raised and whether the call threw.      *)
(***************************************************************************)
EXTENDS Integers, Sequences, FiniteSets, TLC

\* The codec specification: a sending Peer tx, the wire, a receiving Peer rx.
VARIABLES tx, rx, wire, written, received, rxEvents, rxThrown, fragmented
codecVars == <<tx, rx, wire, written, received, rxEvents, rxThrown, fragmented>>

\* The network specification: a Node, a Peer that dials it, the Peer the Node
\* makes of the accepted socket, and a Peer the application attaches.
VARIABLES
    peers,        \* the Peer objects
    server,       \* Node._server
    listens,      \* the listen() calls made
    listening,    \* the servers whose listen callback has run
    peerList,     \* Node._peerList
    clock,        \* new Date() / 1
    phase,        \* the dialer's transport: "none", "dialing", "up"
    accepted,     \* the server has handed the connection to connectPeer
    cliNotified,  \* the dialer's socket has raised 'connect'
    c2s, s2c,     \* the writes in flight, dialer to Node and back
    ended,        \* the sockets on which end() was called
    eos,          \* the sockets that have reached end-of-stream
    peerEvents,   \* the notifications each Peer has raised
    nodeEvents,   \* the notifications the Node has raised
    registered,   \* the Peers handed to connectPeer that raised no end or error since
    bcast,        \* the broadcasts so far, and the send() calls of the last one
    appSent,      \* the (command, data) the application passed to the dialer's send()
    thrown,       \* the processes ended by an uncaught exception
    sockets,      \* the transports the dialer has created
    firstWritten  \* the first write each Peer made to its present transport
netVars == <<peers, server, listens, listening, peerList, clock, phase, accepted, cliNotified, c2s,
             s2c, ended, eos, peerEvents, nodeEvents, registered, bcast,
             appSent, thrown, sockets, firstWritten>>

\* The Host specification: an address string and the Host made of it.
VARIABLES
    typed,        \* the pieces of the address string the application puts together
    hosts         \* the outcomes of new Host(typed), latest last
hostVars == <<typed, hosts>>

vars == <<codecVars, netVars, hostVars>>

(***************************************************************************)
(* Bounds of the model.                                                    *)
(***************************************************************************)
\* bufferSize handed to the Peer constructor (the default is 10485760)
BufferSize == 55
\* bytes written to the wire of the codec specification
MaxStream == 60
\* bufferSize of the receiving Peer of the overflow specification
SmallBuffer == 27
\* maxConnectionAttemps handed to the dialer's constructor (the default is 10)
MaxConnectionAttempts == 2
\* the last value of the clock
MaxClock == 2
\* connectPeer(peer) calls on one Peer
MaxAttach == 2
\* send() calls of the application on the dialer, and broadcast() calls
MaxAppSends == 1
MaxBroadcasts == 1

\* null: of a string field, of an object or number field, of a Buffer or String
Null == "null"
NullId == 0
NullBytes == <<-1>>

(***************************************************************************)
(* Buffer primitives.                                                      *)
(***************************************************************************)
\* Buffer.alloc(n): n zero bytes
Alloc(n) == [i \in 1..n |-> 0]

\* buf.slice(start, end), offsets counted from 0, end exclusive
Slice(buf, start, end) == [i \in 1..(end - start) |-> buf[start + i]]

\* src.copy(target, targetStart, sourceStart, sourceEnd): the target after the
\* copy; bytes that do not fit the target are not copied
Copy(src, target, targetStart, sourceStart, sourceEnd) ==
    LET n == IF sourceEnd - sourceStart < Len(target) - targetStart
             THEN sourceEnd - sourceStart ELSE Len(target) - targetStart
    IN [i \in 1..Len(target) |->
          IF i > targetStart /\ i <= targetStart + n
          THEN src[sourceStart + (i - targetStart)] ELSE target[i]]

\* The value of the 32-bit little-endian word b, saturated at 65536: every
\* buffer of the model is shorter than that, and the code only compares the
\* word with, or adds it to, offsets into the buffer.
Huge == 65536
UInt32(b) == IF b[3] > 0 \/ b[4] > 0 THEN Huge ELSE b[1] + 256 * b[2]

\* buf.writeUInt32LE(n): the four bytes written, for n < 65536
UInt32LE(n) == <<n % 256, (n \div 256) % 256, 0, 0>>

\* buf.readUInt32LE(offset) / readUInt32BE(offset) read the four bytes at the
\* offset and throw a RangeError when offset + 4 exceeds the buffer
InRange(buf, offset) == offset + 4 <= Len(buf)
ReadWord(buf, offset) ==
    <<buf[offset + 1], buf[offset + 2], buf[offset + 3], buf[offset + 4]>>

(***************************************************************************)
(* Collaborators: HMAC-SHA256 and the RSA transform pair.                  *)
(***************************************************************************)
RECURSIVE Digest(_, _)
Digest(h, s) == IF s = <<>> THEN h
                ELSE Digest((h * 31 + Head(s) + 1) % 65536, Tail(s))

HexChar(d) == IF d < 10 THEN 48 + d ELSE 87 + d

\* crypto.createHmac('sha256', command).update(data).digest('hex'), cut to the
\* four characters the code uses: a 16-bit digest of key and message in hex
CalculateChecksum(command, data) ==
    LET h == Digest(Digest(Digest(7, command), <<255>>), data)
    IN <<HexChar(h \div 4096), HexChar((h \div 256) % 16),
         HexChar((h \div 16) % 16), HexChar(h % 16)>>

\* key pairs are numbered; keypair().public is a string of one ASCII
\* character (a PEM text in the code)
KeyIds == {1, 2, 3}
PublicOf(k) == <<100 + k>>
CipherTag(k) == 240 + k
\* longest input crypto.privateEncrypt accepts (key size less the padding)
MaxPlain == 3
MaxListens == 2
IsCipherTag(b) == \E k \in KeyIds : b = CipherTag(k)

\* crypto.privateEncrypt(private, data): NullBytes stands for the throw
PrivateEncrypt(k, data) ==
    IF Len(data) > MaxPlain THEN NullBytes ELSE <<CipherTag(k)>> \o data

\* crypto.publicDecrypt(public, data): the plain text when data was made by
\* privateEncrypt under the matching private key, else a throw (NullBytes)
PublicDecrypt(pub, data) ==
    IF /\ Len(data) >= 1
       /\ \E k \in KeyIds : pub = PublicOf(k) /\ data[1] = CipherTag(k)
    THEN Tail(data) ELSE NullBytes

(***************************************************************************)
(* Host.                                                                   *)
(***************************************************************************)
\* 'localhost', '127.0.0.1'
Localhost == <<108, 111, 99, 97, 108, 104, 111, 115, 116>>
Loopback == <<49, 50, 55, 46, 48, 46, 48, 46, 49>>
Dot == 46
Colon == 58

\* str.includes(search): search occurs somewhere in str
Includes(str, search) ==
    \E i \in 0..(Len(str) - Len(search)) :
       SubSeq(str, i + 1, i + Len(search)) = search

\* str.split(sep) for a separator of one character
RECURSIVE Split(_, _)
Split(str, sep) ==
    IF \A i \in 1..Len(str) : str[i] # sep THEN <<str>>
    ELSE LET i == CHOOSE j \in 1..Len(str) :
                     str[j] = sep /\ \A k \in 1..(j - 1) : str[k] # sep
         IN <<SubSeq(str, 1, i - 1)>> \o Split(SubSeq(str, i + 1, Len(str)), sep)

IsDigit(c) == c \in 48..57
IsHexDigit(c) == c \in (48..57) \cup (65..70) \cup (97..102)

RECURSIVE Decimal(_)
Decimal(str) ==
    IF str = <<>> THEN 0
    ELSE 10 * Decimal(SubSeq(str, 1, Len(str) - 1)) + (str[Len(str)] - 48)

\* a byte of a dotted quad: 0..255 in decimal without leading zeros
IsOctet(str) ==
    /\ Len(str) \in 1..3
    /\ \A i \in 1..Len(str) : IsDigit(str[i])
    /\ Len(str) > 1 => str[1] # 48
    /\ Decimal(str) <= 255

\* net.isIPv4(str)
IsIPv4(str) ==
    LET parts == Split(str, Dot)
    IN Len(parts) = 4 /\ \A i \in 1..4 : IsOctet(parts[i])

\* a group of an IPv6 literal: one to four hexadecimal digits
IsGroup(str) ==
    Len(str) \in 1..4 /\ \A i \in 1..Len(str) : IsHexDigit(str[i])

\* the number of 16-bit groups the colon-separated str stands for, or -1
\* when it is malformed; the last part may be a dotted quad when quad holds
Groups(str, quad) ==
    IF str = <<>> THEN 0
    ELSE LET parts == Split(str, Colon)
             n == Len(parts)
         IN IF \A i \in 1..n : IsGroup(parts[i]) THEN n
            ELSE IF /\ quad
                    /\ IsIPv4(parts[n])
                    /\ \A i \in 1..(n - 1) : IsGroup(parts[i])
            THEN n + 1
            ELSE -1

\* net.isIPv6(str), without zone identifiers: eight groups, or fewer around
\* one '::'
IsIPv6(str) ==
    IF Includes(str, <<Colon, Colon>>)
    THEN LET i == CHOOSE j \in 1..(Len(str) - 1) :
                     /\ str[j] = Colon /\ str[j + 1] = Colon
                     /\ \A k \in 1..(j - 1) : ~(str[k] = Colon /\ str[k + 1] = Colon)
             left == Groups(SubSeq(str, 1, i - 1), FALSE)
             right == Groups(SubSeq(str, i + 2, Len(str)), TRUE)
         IN left >= 0 /\ right >= 0 /\ left + right <= 7
    ELSE Groups(str, TRUE) = 8

\* net.isIP(str)
IsIP(str) == IF IsIPv4(str) THEN 4 ELSE IF IsIPv6(str) THEN 6 ELSE 0

DefaultPort == 5744
NoHost == [ok |-> FALSE, family |-> Null, address |-> NullBytes, port |-> NullId]

\* the test for the 'localhost' shortcut
IsLocalhost(address) == Includes(address, Localhost)

\* new Host(address, port): the object made, or NoHost when it throws
NewHost(address, port) ==
    LET a == IF IsLocalhost(address) THEN Loopback ELSE address
        version == IsIP(a)
    IN IF version = 0 THEN NoHost
       ELSE [ok |-> TRUE,
             family |-> IF version = 4 THEN "IPv4" ELSE "IPv6",
             address |-> a,
             port |-> port]

HostIdle == typed = <<>> /\ hosts = <<>>

(***************************************************************************)
(* Peer: construction and the frame codec.                                 *)
(***************************************************************************)
\* 0xA27CC1A2 as readUInt32LE sees it
Header == <<162, 193, 124, 162>>
SECURE == <<83, 69, 67, 85, 82, 69>>
TEST == <<84, 69, 83, 84>>

\* the field the retry test of _socketEventError reads: the constructor sets
\* _maxConnectionAttempts, and _maxConnectionAttemps is never assigned
Undefined == -1

\* new Peer(host, header, bufferSize, maxConnectionAttemps)
NewPeer(bufferSize, maxAttempts) ==
    [state |-> Null, header |-> Header, bufferSize |-> bufferSize,
     socket |-> NullId, hash |-> NullId, connectionAttempts |-> 0,
     keypair |-> NullId, remotePublicKey |-> NullBytes,
     maxConnectionAttempts |-> maxAttempts,
     maxConnectionAttemps |-> Undefined,
     inBuffer |-> <<>>, inCursor |-> 0,
     errorListeners |-> 0, nodeHandlers |-> 0]

Result(p, ev, threw) == [peer |-> p, events |-> ev, thrown |-> threw]

MessageEvent(command, data) ==
    [event |-> "message", command |-> command, data |-> data]
ErrorEvent == [event |-> "error", command |-> <<>>, data |-> <<>>]

\* the loop of send() that writes up to 12 command characters into the
\* zero-filled header
CommandField(command) ==
    [i \in 1..12 |-> IF i <= Len(command) THEN command[i] ELSE 0]

\* the payload send() frames: transformed with the private key when the
\* command is not SECURE and both the key pair and the remote key are there
SendData(p, command, data) ==
    IF command # SECURE /\ p.keypair # NullId /\ p.remotePublicKey # NullBytes
    THEN PrivateEncrypt(p.keypair, data) ELSE data

\* the outgoingBuffer of send(): checksum.copy writes the hex text from
\* offset 20 and data.copy then overwrites it from offset 24
Frame(command, data) ==
    Header \o CommandField(command) \o UInt32LE(Len(data))
           \o CalculateChecksum(command, data) \o data

\* the characters of the command field that are > 0
RECURSIVE CommandOf(_)
CommandOf(field) ==
    IF field = <<>> THEN <<>>
    ELSE IF Head(field) > 0 THEN <<Head(field)>> \o CommandOf(Tail(field))
    ELSE CommandOf(Tail(field))

\* payload.toString(): the UTF-8 decoding of the bytes, as a sequence of
\* character codes.  An ASCII byte is its own character; a byte that is not
\* part of a valid UTF-8 sequence becomes U+FFFD, and no byte string of the
\* model holds a valid sequence of more than one byte.
ReplacementChar == 65533
BufferToString(bytes) ==
    [i \in 1..Len(bytes) |->
        IF bytes[i] < 128 THEN bytes[i] ELSE ReplacementChar]

\* whether _processMessage checks the tag of a frame of this payload length
ChecksumChecked(messageLength) == messageLength > 0

ProcessMessage_SecureMessage(p, message) ==
    LET messageLength == UInt32(ReadWord(message, 16))
        command == CommandOf(Slice(message, 4, 16))
        checksum == ReadWord(message, 20)
        data == Slice(message, 24, 24 + messageLength)
        payload == IF ChecksumChecked(messageLength)
                   THEN IF checksum # CalculateChecksum(command, data)
                        THEN NullBytes ELSE data
                   ELSE <<>>
    IN IF payload = NullBytes THEN Result(p, <<>>, FALSE)
       ELSE IF command = SECURE
            THEN Result([p EXCEPT !.remotePublicKey = BufferToString(payload)],
                        <<MessageEvent(command, payload)>>, FALSE)
       ELSE IF p.remotePublicKey # NullBytes
            THEN LET plain == PublicDecrypt(p.remotePublicKey, payload)
                 IN IF plain = NullBytes THEN Result(p, <<>>, TRUE)
                    ELSE Result(p, <<MessageEvent(command, plain)>>, FALSE)
       ELSE Result(p, <<MessageEvent(command, payload)>>, FALSE)

\* _processMessage(message)
ProcessMessage(p, message) ==
    LET messageLength == UInt32(ReadWord(message, 16))
        command == CommandOf(Slice(message, 4, 16))
        checksum == ReadWord(message, 20)
        data == Slice(message, 24, 24 + messageLength)
        payload == IF ChecksumChecked(messageLength)
                   THEN IF checksum # CalculateChecksum(command, data)
                        THEN NullBytes ELSE data
                   ELSE <<>>
    IN IF payload = NullBytes THEN Result(p, <<>>, FALSE)
       ELSE IF command = SECURE
            THEN Result([p EXCEPT !.remotePublicKey = BufferToString(payload)],
                        <<>>, FALSE)
       ELSE IF p.remotePublicKey # NullBytes
            THEN LET plain == PublicDecrypt(p.remotePublicKey, payload)
                 IN IF plain = NullBytes THEN Result(p, <<>>, TRUE)
                    ELSE Result(p, <<MessageEvent(command, plain)>>, FALSE)
       ELSE Result(p, <<MessageEvent(command, payload)>>, FALSE)

(***************************************************************************)
(* Peer: stream ingestion.                                                 *)
(***************************************************************************)
\* this._eventEmitter.emit('error', ...): an EventEmitter with no 'error'
\* listener throws instead of returning
EmitErrorThrows(p) == p.errorListeners = 0

\* the first buffered length at which _socketEventData scans for frames
ScanThreshold == 20

NextCursor_ByteStep(cursor, messageLength) == cursor + 1

\* where the scan goes on after a frame whose header it has read
NextCursor(cursor, messageLength) == cursor + messageLength + 24

\* the while loop of _socketEventData, from `cursor' on
RECURSIVE ScanLoop(_, _, _, _)
ScanLoop(p, cursor, messageEnd, ev) ==
    IF ~(cursor < p.inCursor)
    THEN [peer |-> p, events |-> ev, thrown |-> FALSE, messageEnd |-> messageEnd]
    ELSE IF ~InRange(p.inBuffer, cursor)
    THEN [peer |-> p, events |-> ev, thrown |-> TRUE, messageEnd |-> messageEnd]
    ELSE IF ReadWord(p.inBuffer, cursor) = p.header
    THEN IF p.inCursor > cursor + 16
         THEN IF ~InRange(p.inBuffer, cursor + 16)
              THEN [peer |-> p, events |-> ev, thrown |-> TRUE,
                    messageEnd |-> messageEnd]
              ELSE LET messageLength == UInt32(ReadWord(p.inBuffer, cursor + 16))
                   IN IF p.inCursor >= cursor + messageLength + 24
                      THEN LET r == ProcessMessage(p,
                                      Slice(p.inBuffer, cursor,
                                            cursor + messageLength + 24))
                           IN IF r.thrown
                              THEN [peer |-> r.peer, events |-> ev \o r.events,
                                    thrown |-> TRUE, messageEnd |-> messageEnd]
                              ELSE ScanLoop(r.peer,
                                            NextCursor(cursor, messageLength),
                                            cursor + messageLength + 24,
                                            ev \o r.events)
                      ELSE ScanLoop(p, NextCursor(cursor, messageLength),
                                    messageEnd, ev)
         ELSE ScanLoop(p, p.inCursor, messageEnd, ev)
    ELSE ScanLoop(p, cursor + 1, messageEnd, ev)

Compact_DropTail(p, messageEnd) ==
    IF messageEnd > 0 THEN [p EXCEPT !.inCursor = 0] ELSE p

\* the end of _socketEventData: the processed messages leave the buffer
Compact(p, messageEnd) ==
    IF messageEnd > 0
    THEN [p EXCEPT !.inBuffer = Copy(p.inBuffer, p.inBuffer, 0, messageEnd,
                                     p.inCursor),
                   !.inCursor = p.inCursor - messageEnd]
    ELSE p

\* _socketEventData(data)
SocketEventData(p, data) ==
    IF Len(data) + p.inCursor > Len(p.inBuffer)
    THEN IF EmitErrorThrows(p) THEN Result(p, <<ErrorEvent>>, TRUE)
         ELSE Result([p EXCEPT !.inCursor = Len(p.inBuffer) + 1],
                     <<ErrorEvent>>, FALSE)
    ELSE LET q == [p EXCEPT !.inBuffer = Copy(data, p.inBuffer, p.inCursor, 0,
                                              Len(data)),
                            !.inCursor = p.inCursor + Len(data)]
         IN IF q.inCursor < ScanThreshold THEN Result(q, <<>>, FALSE)
            ELSE LET s == ScanLoop(q, 0, 0, <<>>)
                 IN IF s.thrown THEN Result(s.peer, s.events, TRUE)
                    ELSE Result(Compact(s.peer, s.messageEnd), s.events, FALSE)

\* connect(): the part that allocates the accumulation buffer
AllocBuffer(p) == [p EXCEPT !.inBuffer = Alloc(p.bufferSize), !.inCursor = 0]

\* send(command, data) up to the write: the bytes handed to the socket, or
\* NullBytes when the transform throws (the promise of send() then rejects)
SendBytes(p, command, data) ==
    LET d == SendData(p, command, data)
    IN IF d = NullBytes THEN NullBytes ELSE Frame(command, d)

(***************************************************************************)
(* Peer: connection, retry and teardown.  Node: registry and broadcast.    *)
(***************************************************************************)
Dialer == "dialer"
Accepted == "accepted"
PeerIds == {Dialer, Accepted}

\* keypair() of the dialer's generateKeypair and of the Node's constructor
DialerKey == 1
NodeKey == 2

\* a >= b of JavaScript, false when b is undefined
JsGe(a, b) == b # Undefined /\ a >= b

\* the events of the socket that connect() subscribes the Peer to, besides
\* the 'connect' callback handed to net.createConnection
SocketListeners == {"data", "error"}

PeerConnect_NoSecure(p, socket, newSocket) ==
    LET q == AllocBuffer(p)
    IN IF q.socket = NullId
       THEN [peer |-> [q EXCEPT
                         !.state = IF socket = NullId THEN "connecting"
                                   ELSE "connected",
                         !.socket = IF socket = NullId THEN newSocket
                                    ELSE socket],
             created |-> socket = NullId, written |-> <<>>]
       ELSE [peer |-> q, created |-> FALSE, written |-> <<>>]

\* connect(socket): the Peer after the call, whether it made a transport, and
\* the bytes it wrote (the SECURE frame of a Peer with a key pair)
PeerConnect(p, socket, newSocket) ==
    LET q == AllocBuffer(p)
    IN IF q.socket = NullId
       THEN LET c == [q EXCEPT
                        !.state = IF socket = NullId THEN "connecting"
                                  ELSE "connected",
                        !.socket = IF socket = NullId THEN newSocket ELSE socket]
            IN [peer |-> c, created |-> socket = NullId,
                written |-> IF c.keypair # NullId
                            THEN SendBytes(c, SECURE, PublicOf(c.keypair))
                            ELSE <<>>]
       ELSE [peer |-> q, created |-> FALSE, written |-> <<>>]

SocketEventConnect_CountKept(p) ==
    Result([p EXCEPT !.state = "connected"],
           <<[event |-> "connect", command |-> <<>>, data |-> <<>>]>>, FALSE)

\* _socketEventConnect()
SocketEventConnect(p) ==
    Result([p EXCEPT !.state = "connected", !.connectionAttempts = 0],
           <<[event |-> "connect", command |-> <<>>, data |-> <<>>]>>, FALSE)

\* _socketEventEnd()
SocketEventEnd(p) ==
    Result(p, <<[event |-> "end", command |-> <<>>, data |-> <<>>]>>, FALSE)

SocketEventClose_StateKept(p) ==
    Result(p, <<[event |-> "close", command |-> <<>>, data |-> <<>>]>>, FALSE)

\* _socketEventClose()
SocketEventClose(p) ==
    Result([p EXCEPT !.state = "closed"],
           <<[event |-> "close", command |-> <<>>, data |-> <<>>]>>, FALSE)

PeerGenerateKeypair_Always(p, k) ==
    Result([p EXCEPT !.keypair = k], <<>>, FALSE)

\* generateKeypair(), k the pair keypair() makes: the call throws when the
\* state is not null
PeerGenerateKeypair(p, k) ==
    IF p.state = Null THEN Result([p EXCEPT !.keypair = k], <<>>, FALSE)
    ELSE Result(p, <<>>, TRUE)

\* the test of _socketEventError that raises the 'error' notification
ErrorRaised(p) ==
    p.state # "connecting"
        \/ JsGe(p.connectionAttempts, p.maxConnectionAttemps)

SocketEventError_Retry(p, newSocket) ==
    LET c == PeerConnect([p EXCEPT !.connectionAttempts = @ + 1,
                                   !.socket = NullId], NullId, newSocket)
        raise == ErrorRaised(c.peer)
    IN [peer |-> c.peer, created |-> c.created, written |-> c.written,
        events |-> IF raise THEN <<ErrorEvent>> ELSE <<>>,
        thrown |-> raise /\ EmitErrorThrows(c.peer)]

\* _socketEventError(err)
SocketEventError(p, newSocket) ==
    LET c == IF p.state = "connecting"
             THEN PeerConnect([p EXCEPT !.connectionAttempts = @ + 1,
                                        !.socket = NullId], NullId, newSocket)
             ELSE [peer |-> p, created |-> FALSE, written |-> <<>>]
        raise == ErrorRaised(c.peer)
    IN [peer |-> c.peer, created |-> c.created, written |-> c.written,
        events |-> IF raise THEN <<ErrorEvent>> ELSE <<>>,
        thrown |-> raise /\ EmitErrorThrows(c.peer)]

\* send(command, data): "true" with the bytes written, "false" when the write
\* fails or there is no socket, "rejected" when the transform throws
Send(p, writable, command, data) ==
    LET bytes == SendBytes(p, command, data)
    IN IF bytes = NullBytes THEN [written |-> <<>>, outcome |-> "rejected"]
       ELSE IF p.socket = NullId \/ ~writable
            THEN [written |-> <<>>, outcome |-> "false"]
       ELSE [written |-> bytes, outcome |-> "true"]

\* crypto.createHash('md5').update((new Date() / 1).toString()).digest('hex'):
\* the digest of the time stands for the time
HashOf(time) == time

NoPeers == [h \in {} |-> Dialer]
Remove(list, hash) == [h \in (DOMAIN list) \ {hash} |-> list[h]]
Entries(list, pid) == {h \in DOMAIN list : list[h] = pid}
Range(list) == {list[h] : h \in DOMAIN list}

NodeEvent(event, pid, e) ==
    [event |-> event, peer |-> pid, command |-> e.command, data |-> e.data]
Repeat(n, x) == [i \in 1..n |-> x]

\* the key the Node's 'end' and 'error' listeners delete
DeletedKey(p) == p.hash

\* the listeners connectPeer put on Peer pid, run for the notifications ev
\* that the Peer p raised: st is the Node's registry and its notifications
RECURSIVE NodeListeners(_, _, _, _)
NodeListeners(st, pid, p, ev) ==
    IF ev = <<>> \/ p.nodeHandlers = 0 THEN st
    ELSE LET e == Head(ev)
             next ==
               IF e.event = "message"
               THEN [st EXCEPT !.nodeEvents =
                         @ \o Repeat(p.nodeHandlers, NodeEvent("message", pid, e))]
               ELSE IF e.event \in {"end", "error"}
               THEN [peerList |-> Remove(st.peerList, DeletedKey(p)),
                     nodeEvents |-> st.nodeEvents
                         \o Repeat(p.nodeHandlers, NodeEvent(e.event, pid, e))]
               ELSE st
         IN NodeListeners(next, pid, p, Tail(ev))

\* connectPeer(socketOrPeer), after the Peer is there: the Peer with its hash
\* and listeners
Register(p, time) ==
    [p EXCEPT !.hash = HashOf(time), !.nodeHandlers = @ + 1,
              !.errorListeners = @ + 1]

\* the state after the constructors, new Node(host) and new Peer(host), and
\* after the application's peer.on('error', ...) on the dialer
NetIdle ==
    /\ peers = [pid \in PeerIds |->
                  IF pid = Dialer
                  THEN [NewPeer(BufferSize, MaxConnectionAttempts) EXCEPT
                          !.errorListeners = 1]
                  ELSE NewPeer(BufferSize, 10)]
    /\ server = NullId
    /\ listens = 0
    /\ listening = 0
    /\ peerList = NoPeers
    /\ clock = 1
    /\ phase = "none"
    /\ accepted = FALSE
    /\ cliNotified = FALSE
    /\ c2s = <<>>
    /\ s2c = <<>>
    /\ ended = {}
    /\ eos = {}
    /\ peerEvents = [pid \in PeerIds |-> <<>>]
    /\ nodeEvents = <<>>
    /\ registered = {}
    /\ bcast = [count |-> 0, targets |-> {}, remote |-> {}, calls |-> <<>>,
                command |-> <<>>, data |-> <<>>]
    /\ appSent = <<>>
    /\ thrown = {}
    /\ sockets = 0
    /\ firstWritten = [pid \in PeerIds |-> NullBytes]

(***************************************************************************)
(* Codec specification: tx writes frames with send(), the transport also   *)
(* carries one raw write (noise or a tampered frame), and the bytes reach  *)
(* rx as data events that cut the stream anywhere.  A handler of rx that   *)
(* throws is an uncaught exception: rx handles no event after it.          *)
(***************************************************************************)
ABCDEFGHIJKL == <<65, 66, 67, 68, 69, 70, 71, 72, 73, 74, 75, 76>>
\* a command with a NUL character in it
ANulB == <<65, 0, 66>>
\* the (command, data) pairs tx sends: the empty payload, one byte, the magic
\* constant, a whole frame, and a payload that makes the frame one byte
\* longer than rx's buffer
Sends == {<<TEST, <<>> >>, <<TEST, <<7>> >>, <<TEST, Header>>,
          <<TEST, Frame(TEST, <<7>>)>>, <<ABCDEFGHIJKL, <<7>> >>,
          <<SECURE, <<201>> >>, <<SECURE, PublicOf(2)>>,
          <<ANulB, <<>> >>, <<ANulB, <<7>> >>,
          <<TEST, Alloc(BufferSize - 23)>>}
\* the lengths of the data events; 0 stands for all the bytes on the wire
ChunkSizes == {0, 1, 5}

\* a frame as Frame makes it, with another integrity tag
Tampered(command, data) ==
    Header \o CommandField(command) \o UInt32LE(Len(data))
           \o <<48, 48, 48, 48>> \o data
Noise == <<1, 2, 3>>
RawWrites == {Noise, Tampered(TEST, <<7>>), Tampered(TEST, <<>>),
              Tampered(SECURE, <<201>>)}

Sent(command, data) == [kind |-> "send", command |-> command, data |-> data]
Raw(bytes) == [kind |-> "raw", command |-> <<>>, data |-> bytes]

\* tx is connected; it either has no key material or has a key pair and has
\* learned the remote key, and then send() transforms what it frames
InitCodec ==
    /\ \E keyed \in BOOLEAN :
         tx = [NewPeer(BufferSize, 10) EXCEPT
                 !.state = "connected", !.socket = 1,
                 !.keypair = IF keyed THEN 1 ELSE NullId,
                 !.remotePublicKey = IF keyed THEN PublicOf(2) ELSE NullBytes]
    /\ rx = [AllocBuffer(NewPeer(BufferSize, 10)) EXCEPT
               !.state = "connected", !.socket = 1, !.errorListeners = 1]
    /\ wire = <<>>
    /\ written = <<>>
    /\ received = <<>>
    /\ rxEvents = <<>>
    /\ rxThrown = FALSE
    /\ fragmented = FALSE
    /\ NetIdle
    /\ HostIdle

StreamLen == Len(received) + Len(wire)

\* tx.send(command, data) on a connected transport, for one of the calls
TxSendOf(calls) ==
    \E cd \in calls :
       LET command == cd[1]
           data == cd[2]
           bytes == SendBytes(tx, command, data)
       IN /\ bytes # NullBytes
          /\ StreamLen + Len(bytes) <= MaxStream
          /\ wire' = wire \o bytes
          /\ written' = Append(written, Sent(command, data))
          /\ UNCHANGED <<hostVars, tx, rx, received, rxEvents, rxThrown, fragmented, netVars>>

TxSend == TxSendOf(Sends)

\* bytes on the transport that no send() of tx made
TxRaw ==
    \E bytes \in RawWrites :
       /\ \A i \in 1..Len(written) : written[i].kind # "raw"
       /\ StreamLen + Len(bytes) <= MaxStream
       /\ wire' = wire \o bytes
       /\ written' = Append(written, Raw(bytes))
       /\ UNCHANGED <<hostVars, tx, rx, received, rxEvents, rxThrown, fragmented, netVars>>

\* a 'data' event of rx's socket with the next k bytes
DataEvent(size) ==
    LET k == IF size = 0 \/ size > Len(wire) THEN Len(wire) ELSE size
        r == SocketEventData(rx, SubSeq(wire, 1, k))
    IN /\ ~rxThrown
       /\ wire # <<>>
       /\ rx' = r.peer
       /\ rxEvents' = rxEvents \o r.events
       /\ rxThrown' = r.thrown
       /\ received' = received \o SubSeq(wire, 1, k)
       /\ wire' = SubSeq(wire, k + 1, Len(wire))
       /\ fragmented' = (fragmented \/ k < Len(wire))
       /\ UNCHANGED <<hostVars, tx, written, netVars>>

RxData == \E size \in ChunkSizes : DataEvent(size)

NextCodec == TxSend \/ TxRaw \/ RxData

\* the codec specification's variables, at rest
CodecIdle ==
    /\ tx = NewPeer(BufferSize, 10)
    /\ rx = NewPeer(BufferSize, 10)
    /\ wire = <<>>
    /\ written = <<>>
    /\ received = <<>>
    /\ rxEvents = <<>>
    /\ rxThrown = FALSE
    /\ fragmented = FALSE

SpecCodec == InitCodec /\ [][NextCodec]_vars

(***************************************************************************)
(* Overflow specification: the codec specification with a receiving Peer   *)
(* whose buffer is shorter than some of the frames, whose data events      *)
(* carry all the bytes in flight, and whose application calls connect()    *)
(* again once the Peer has overflowed.                                     *)
(***************************************************************************)
InitOverflow ==
    /\ tx = [NewPeer(BufferSize, 10) EXCEPT
               !.state = "connected", !.socket = 1]
    /\ rx = [AllocBuffer(NewPeer(SmallBuffer, 10)) EXCEPT
               !.state = "connected", !.socket = 1, !.errorListeners = 1]
    /\ wire = <<>>
    /\ written = <<>>
    /\ received = <<>>
    /\ rxEvents = <<>>
    /\ rxThrown = FALSE
    /\ fragmented = FALSE
    /\ NetIdle
    /\ HostIdle

\* the cursor is pinned past the capacity
Poisoned(p) == p.inCursor > Len(p.inBuffer)

\* rx.connect() of the application on the Peer that has its transport
RxConnect ==
    /\ ~rxThrown
    /\ Poisoned(rx)
    /\ rx' = PeerConnect(rx, NullId, rx.socket + 1).peer
    /\ UNCHANGED <<hostVars, tx, wire, written, received, rxEvents, rxThrown,
                   fragmented, netVars>>

\* a 'data' event of rx's socket with all the bytes in flight
RxDataAll == DataEvent(0)

NextOverflow == TxSend \/ TxRaw \/ RxDataAll \/ RxConnect

SpecOverflow == InitOverflow /\ [][NextOverflow]_vars

(***************************************************************************)
(* Stream specification: a sender without key material writes frames to a  *)
(* receiving Peer with a small buffer, and the transport delivers the      *)
(* bytes in chunks.                                                        *)
(***************************************************************************)
NextStream == TxSend \/ RxData

SpecStream == InitOverflow /\ [][NextStream]_vars

(***************************************************************************)
(* Noise specification: the transport carries noise, bytes without the     *)
(* magic, ahead of the one frame a sender without key material writes.     *)
(***************************************************************************)
\* noise: the tails are the first bytes of the magic
Noises == {Noise, <<162>>, SubSeq(Header, 1, 3), <<7>> \o SubSeq(Header, 1, 3),
           Alloc(21)}

InitNoise ==
    /\ \E noise \in Noises :
         /\ wire = noise
         /\ written = <<Raw(noise)>>
    /\ tx = [NewPeer(BufferSize, 10) EXCEPT !.state = "connected", !.socket = 1]
    /\ rx = [AllocBuffer(NewPeer(BufferSize, 10)) EXCEPT
               !.state = "connected", !.socket = 1, !.errorListeners = 1]
    /\ received = <<>>
    /\ rxEvents = <<>>
    /\ rxThrown = FALSE
    /\ fragmented = FALSE
    /\ NetIdle
    /\ HostIdle

\* the one send() of tx
SendOnce == Len(written) = 1 /\ TxSend

NextNoise == SendOnce \/ RxData

SpecNoise == InitNoise /\ [][NextNoise]_vars

(***************************************************************************)
(* Command specification: the sender's commands are 12 characters long and *)
(* longer.                                                                 *)
(***************************************************************************)
ABCDEFGHIJKLM == ABCDEFGHIJKL \o <<77>>
LongSends == {<<ABCDEFGHIJKL, <<>> >>, <<ABCDEFGHIJKL, <<7>> >>,
              <<ABCDEFGHIJKLM, <<>> >>, <<ABCDEFGHIJKLM, <<7>> >>,
              <<ABCDEFGHIJKLM \o TEST, <<>> >>,
              <<ABCDEFGHIJKLM \o TEST, <<7, 7>> >>}

TxSendLong == TxSendOf(LongSends)

NextCommand == TxSendLong \/ RxData

SpecCommand == InitCodec /\ [][NextCommand]_vars

(***************************************************************************)
(* Network specification.  The dialer and the Node run in two processes,   *)
(* or in one when the dialer is attached to the Node; a handler that       *)
(* throws ends its process.                                                *)
(***************************************************************************)
Init == NetIdle /\ CodecIdle /\ HostIdle

\* retries of a refused connection that the model follows
AttemptCap == MaxConnectionAttempts + 1

ProcessOf(pid) == IF pid = Dialer THEN "dialer" ELSE "node"
Alive(pid) == ProcessOf(pid) \notin thrown
Throw(pid) ==
    IF peers[Dialer].nodeHandlers > 0 THEN {"dialer", "node"}
    ELSE {ProcessOf(pid)}

Writable(pid) ==
    /\ pid \notin ended
    /\ pid \notin eos
    /\ IF pid = Dialer THEN phase # "none" ELSE accepted

WireAppend(w, bytes) == IF bytes = <<>> THEN w ELSE Append(w, bytes)

\* the first write of a transport, after a write of `bytes' to it
First(first, bytes) ==
    IF first = NullBytes /\ bytes # <<>> THEN bytes ELSE first

RECURSIVE Concat(_)
Concat(segments) ==
    IF segments = <<>> THEN <<>> ELSE Head(segments) \o Concat(Tail(segments))

\* what the notifications ev of Peer pid (now p) do to the Node
Notified(pid, p, ev) ==
    NodeListeners([peerList |-> peerList, nodeEvents |-> nodeEvents], pid, p, ev)

Raised(ev, kinds) == \E i \in 1..Len(ev) : ev[i].event \in kinds

\* the Peer pid raised ev: its listeners run
Emit(pid, p, ev) ==
    /\ peerEvents' = [peerEvents EXCEPT ![pid] = @ \o ev]
    /\ peerList' = Notified(pid, p, ev).peerList
    /\ nodeEvents' = Notified(pid, p, ev).nodeEvents
    /\ registered' = IF Raised(ev, {"end", "error"}) THEN registered \ {pid}
                     ELSE registered

NodeListen_Always(srv) == srv + 1

\* the test of listen(): net.createServer when there is no server; servers
\* are numbered in the order they are made, so the number of the server is
\* also the number of servers made
NodeListen(srv) == IF srv = NullId THEN srv + 1 ELSE srv

\* node.listen()
Listen ==
    /\ Alive(Accepted)
    /\ listens < MaxListens
    /\ listens' = listens + 1
    /\ server' = NodeListen(server)
    /\ UNCHANGED <<hostVars, codecVars, peers, listening, peerList, clock, phase, accepted,
                   cliNotified, c2s, s2c, ended, eos, peerEvents, nodeEvents,
                   registered, bcast, appSent, thrown, sockets, firstWritten>>

\* the first listen() of the Node
Start == server = NullId /\ Listen

\* the callback of server.listen: the server is bound
ServerListening ==
    /\ Alive(Accepted)
    /\ listening < server
    /\ listening' = listening + 1
    /\ nodeEvents' = Append(nodeEvents,
                            [event |-> "nodeListening", peer |-> Null,
                             command |-> <<>>, data |-> <<>>])
    /\ UNCHANGED <<hostVars, codecVars, peers, server, listens, peerList, clock, phase,
                   accepted, cliNotified, c2s, s2c, ended, eos, peerEvents,
                   registered, bcast, appSent, thrown, sockets, firstWritten>>

\* a millisecond passes; the clock is read by connectPeer only, and it is
\* followed from the first registration to the last
Tick ==
    /\ clock < MaxClock
    /\ peers[Dialer].hash # NullId
    /\ ~accepted
    /\ clock' = clock + 1
    /\ UNCHANGED <<hostVars, codecVars, peers, server, listens, listening, peerList, phase, accepted,
                   cliNotified, c2s, s2c, ended, eos, peerEvents, nodeEvents,
                   registered, bcast, appSent, thrown, sockets, firstWritten>>

\* peer.generateKeypair() of the application, on a Peer without a key pair;
\* a call that throws changes nothing
GenerateKeypair ==
    /\ Alive(Dialer)
    /\ peers[Dialer].keypair = NullId
    /\ LET r == PeerGenerateKeypair(peers[Dialer], DialerKey)
       IN /\ ~r.thrown
          /\ peers' = [peers EXCEPT ![Dialer] = r.peer]
    /\ UNCHANGED <<hostVars, codecVars, server, listens, listening, peerList, clock, phase, accepted,
                   cliNotified, c2s, s2c, ended, eos, peerEvents, nodeEvents,
                   registered, bcast, appSent, thrown, sockets, firstWritten>>

\* peer.connect() of the application
Connect ==
    /\ Alive(Dialer)
    /\ peers[Dialer].state = Null
    /\ LET c == PeerConnect(peers[Dialer], NullId, sockets + 1)
       IN /\ peers' = [peers EXCEPT ![Dialer] = c.peer]
          /\ sockets' = sockets + 1
          /\ phase' = "dialing"
          /\ c2s' = WireAppend(<<>>, c.written)
          /\ firstWritten' = [firstWritten EXCEPT
                                ![Dialer] = First(NullBytes, c.written)]
    /\ UNCHANGED <<hostVars, codecVars, server, listens, listening, peerList, clock, accepted, cliNotified,
                   s2c, ended, eos, peerEvents, nodeEvents, registered, bcast,
                   appSent, thrown>>

\* peer.connect() while the Node listens
Dial == listening # 0 /\ Connect

\* the dialer's socket raises 'error' before the connection is made
ConnectionRefused ==
    /\ Alive(Dialer)
    /\ phase = "dialing"
    /\ peers[Dialer].connectionAttempts < AttemptCap
    /\ LET r == SocketEventError(peers[Dialer], sockets + 1)
       IN /\ peers' = [peers EXCEPT ![Dialer] = r.peer]
          /\ sockets' = IF r.created THEN sockets + 1 ELSE sockets
          /\ phase' = IF r.created THEN "dialing" ELSE "none"
          /\ c2s' = WireAppend(<<>>, r.written)
          /\ firstWritten' = [firstWritten EXCEPT
                                ![Dialer] = IF r.created
                                            THEN First(NullBytes, r.written)
                                            ELSE @]
          /\ Emit(Dialer, r.peer, r.events)
          /\ thrown' = IF r.thrown THEN thrown \cup Throw(Dialer) ELSE thrown
    /\ UNCHANGED <<hostVars, codecVars, server, listens, listening, clock, accepted, cliNotified, s2c, ended,
                   eos, bcast, appSent>>

\* the socket of a connected Peer raises 'error', for the first time on
\* this connection
SocketError ==
    \E pid \in {Dialer, Accepted} :
       /\ Alive(pid)
       /\ peers[pid].state = "connected"
       /\ IF pid = Dialer THEN cliNotified ELSE accepted
       /\ ended = {}
       /\ \A q \in PeerIds : ~Raised(peerEvents[q], {"error"})
       /\ LET r == SocketEventError(peers[pid], sockets + 1)
          IN /\ peers' = [peers EXCEPT ![pid] = r.peer]
             /\ Emit(pid, r.peer, r.events)
             /\ thrown' = IF r.thrown THEN thrown \cup Throw(pid) ELSE thrown
       /\ UNCHANGED <<hostVars, codecVars, server, listens, listening, clock, phase, accepted, cliNotified,
                      c2s, s2c, ended, eos, bcast, appSent, sockets, firstWritten>>

\* the server hands the accepted socket to connectPeer(socket)
Accept ==
    /\ Alive(Accepted)
    /\ listening # 0
    /\ phase \in {"dialing", "up"}
    /\ ~accepted
    /\ LET fresh == [NewPeer(BufferSize, 10) EXCEPT !.keypair = NodeKey]
           c == PeerConnect(fresh, 1, 1)
       IN /\ peers' = [peers EXCEPT ![Accepted] = Register(c.peer, clock)]
          /\ s2c' = WireAppend(s2c, c.written)
          /\ firstWritten' = [firstWritten EXCEPT
                                ![Accepted] = First(NullBytes, c.written)]
          /\ peerList' = (HashOf(clock) :> Accepted) @@ peerList
    /\ phase' = "up"
    /\ accepted' = TRUE
    /\ registered' = registered \cup {Accepted}
    /\ nodeEvents' = Append(nodeEvents,
                            [event |-> "peerConnected", peer |-> Accepted,
                             command |-> <<>>, data |-> <<>>])
    /\ UNCHANGED <<hostVars, codecVars, server, listens, listening, clock, cliNotified, c2s, ended, eos,
                   peerEvents, bcast, appSent, thrown, sockets>>

\* node.connectPeer(peer) of the application, in the dialer's process and
\* before it calls peer.connect()
AttachPeer ==
    /\ Alive(Accepted)
    /\ Alive(Dialer)
    /\ peers[Dialer].state = Null
    /\ peers[Dialer].nodeHandlers < MaxAttach
    /\ peers' = [peers EXCEPT ![Dialer] = Register(peers[Dialer], clock)]
    /\ peerList' = (HashOf(clock) :> Dialer) @@ peerList
    /\ registered' = registered \cup {Dialer}
    /\ nodeEvents' = Append(nodeEvents,
                            [event |-> "peerConnected", peer |-> Dialer,
                             command |-> <<>>, data |-> <<>>])
    /\ UNCHANGED <<hostVars, codecVars, server, listens, listening, clock, phase, accepted, cliNotified,
                   c2s, s2c, ended, eos, peerEvents, bcast, appSent, thrown,
                   sockets, firstWritten>>

\* the dialer's socket raises 'connect'
SocketConnect ==
    /\ Alive(Dialer)
    /\ listening # 0
    /\ phase \in {"dialing", "up"}
    /\ ~cliNotified
    /\ LET r == SocketEventConnect(peers[Dialer])
       IN /\ peers' = [peers EXCEPT ![Dialer] = r.peer]
          /\ Emit(Dialer, r.peer, r.events)
    /\ phase' = "up"
    /\ cliNotified' = TRUE
    /\ UNCHANGED <<hostVars, codecVars, server, listens, listening, clock, accepted, c2s, s2c, ended, eos,
                   bcast, appSent, thrown, sockets, firstWritten>>

\* a 'data' event of the accepted socket: the first write in flight, or all
DataToNode ==
    \E n \in {1, Len(c2s)} :
       /\ Alive(Accepted)
       /\ accepted
       /\ c2s # <<>>
       /\ LET r == SocketEventData(peers[Accepted], Concat(SubSeq(c2s, 1, n)))
          IN /\ peers' = [peers EXCEPT ![Accepted] = r.peer]
             /\ Emit(Accepted, r.peer, r.events)
             /\ thrown' = IF r.thrown THEN thrown \cup Throw(Accepted)
                          ELSE thrown
       /\ c2s' = SubSeq(c2s, n + 1, Len(c2s))
       /\ UNCHANGED <<hostVars, codecVars, server, listens, listening, clock, phase, accepted, cliNotified,
                      s2c, ended, eos, bcast, appSent, sockets, firstWritten>>

\* a 'data' event of the dialer's socket
DataToDialer ==
    \E n \in {1, Len(s2c)} :
       /\ Alive(Dialer)
       /\ cliNotified
       /\ s2c # <<>>
       /\ LET r == SocketEventData(peers[Dialer], Concat(SubSeq(s2c, 1, n)))
          IN /\ peers' = [peers EXCEPT ![Dialer] = r.peer]
             /\ Emit(Dialer, r.peer, r.events)
             /\ thrown' = IF r.thrown THEN thrown \cup Throw(Dialer)
                          ELSE thrown
       /\ s2c' = SubSeq(s2c, n + 1, Len(s2c))
       /\ UNCHANGED <<hostVars, codecVars, server, listens, listening, clock, phase, accepted, cliNotified,
                      c2s, ended, eos, bcast, appSent, sockets, firstWritten>>

\* the (command, data) of the application's send(): a byte, and the bytes
\* privateEncrypt makes of it under the dialer's own key
AppSends == {<<TEST, <<7>> >>, <<TEST, <<CipherTag(DialerKey), 7>> >>}

\* peer.send(command, data) of the application, once the transport exists
AppSend ==
    \E cd \in AppSends :
       /\ Alive(Dialer)
       /\ peers[Dialer].socket # NullId
       /\ Len(appSent) < MaxAppSends
       /\ LET r == Send(peers[Dialer], Writable(Dialer), cd[1], cd[2])
          IN /\ c2s' = WireAppend(c2s, r.written)
             /\ firstWritten' = [firstWritten EXCEPT
                                   ![Dialer] = First(@, r.written)]
             /\ appSent' = Append(appSent,
                                  [command |-> cd[1], data |-> cd[2],
                                   outcome |-> r.outcome])
       /\ UNCHANGED <<hostVars, codecVars, peers, server, listens, listening, peerList, clock, phase,
                      accepted, cliNotified, s2c, ended, eos, peerEvents,
                      nodeEvents, registered, bcast, thrown, sockets>>

\* the keys of the registry in the order for-in visits them: the order of
\* insertion, which is the order of the registration times
Keys(list) ==
    SelectSeq([h \in 1..MaxClock |-> h], LAMBDA h : h \in DOMAIN list)

\* whether the connection of Peer pid to its remote endpoint is up
Connected(pid) ==
    /\ accepted
    /\ cliNotified
    /\ ended = {}
    /\ eos = {}
    /\ peers[Dialer].state = "connected"
    /\ pid \in PeerIds

\* the for-in loop of broadcast over the keys left: st carries the wires and
\* the send() calls made so far
RECURSIVE BroadcastLoop(_, _, _, _)
BroadcastLoop(keys, st, command, data) ==
    IF keys = <<>> THEN st
    ELSE LET pid == peerList[Head(keys)]
             r == Send(peers[pid], Writable(pid), command, data)
             call == [peer |-> pid, outcome |-> r.outcome]
         IN BroadcastLoop(Tail(keys),
               [c2s |-> IF pid = Dialer THEN WireAppend(st.c2s, r.written)
                        ELSE st.c2s,
                s2c |-> IF pid = Accepted THEN WireAppend(st.s2c, r.written)
                        ELSE st.s2c,
                first |-> [st.first EXCEPT ![pid] = First(@, r.written)],
                calls |-> Append(st.calls, call)],
               command, data)

\* node.broadcast(command, data) of the application
Broadcast ==
    /\ Alive(Accepted)
    /\ bcast.count < MaxBroadcasts
    /\ LET st == BroadcastLoop(Keys(peerList),
                               [c2s |-> c2s, s2c |-> s2c,
                                first |-> firstWritten, calls |-> <<>>],
                               TEST, <<7>>)
       IN /\ c2s' = st.c2s
          /\ s2c' = st.s2c
          /\ firstWritten' = st.first
          /\ bcast' = [count |-> bcast.count + 1,
                       targets |-> Range(peerList),
                       remote |-> {pid \in Range(peerList) : Connected(pid)},
                       calls |-> st.calls,
                       command |-> TEST, data |-> <<7>>]
    /\ UNCHANGED <<hostVars, codecVars, peers, server, listens, listening, peerList, clock, phase, accepted,
                   cliNotified, ended, eos, peerEvents, nodeEvents, registered,
                   appSent, thrown, sockets>>

\* peer.disconnect() up to the await: the state changes and end() is called
DisconnectCall ==
    /\ Alive(Dialer)
    /\ Connected(Dialer)
    /\ peers' = [peers EXCEPT ![Dialer].state = "disconnecting"]
    /\ ended' = ended \cup {Dialer}
    /\ UNCHANGED <<hostVars, codecVars, server, listens, listening, peerList, clock, phase, accepted,
                   cliNotified, c2s, s2c, eos, peerEvents, nodeEvents,
                   registered, bcast, appSent, thrown, sockets, firstWritten>>

\* peer.disconnect() after the await: _socketEventClose()
DisconnectDone ==
    /\ Alive(Dialer)
    /\ peers[Dialer].state = "disconnecting"
    /\ LET r == SocketEventClose(peers[Dialer])
       IN /\ peers' = [peers EXCEPT ![Dialer] = r.peer]
          /\ Emit(Dialer, r.peer, r.events)
    /\ UNCHANGED <<hostVars, codecVars, server, listens, listening, clock, phase, accepted, cliNotified,
                   c2s, s2c, ended, eos, bcast, appSent, thrown, sockets, firstWritten>>

\* peer.destroy() up to the await: the state changes and destroy() is called
DestroyCall ==
    /\ Alive(Dialer)
    /\ Connected(Dialer)
    /\ peers' = [peers EXCEPT ![Dialer].state = "destroying"]
    /\ ended' = ended \cup {Dialer}
    /\ UNCHANGED <<hostVars, codecVars, server, listens, listening, peerList, clock, phase, accepted,
                   cliNotified, c2s, s2c, eos, peerEvents, nodeEvents,
                   registered, bcast, appSent, thrown, sockets, firstWritten>>

\* peer.destroy() after the await: _socketEventClose()
DestroyDone ==
    /\ Alive(Dialer)
    /\ peers[Dialer].state = "destroying"
    /\ LET r == SocketEventClose(peers[Dialer])
       IN /\ peers' = [peers EXCEPT ![Dialer] = r.peer]
          /\ Emit(Dialer, r.peer, r.events)
    /\ UNCHANGED <<hostVars, codecVars, server, listens, listening, clock, phase, accepted, cliNotified,
                   c2s, s2c, ended, eos, bcast, appSent, thrown, sockets,
                   firstWritten>>

Remote(pid) == IF pid = Dialer THEN Accepted ELSE Dialer
Inbound(pid) == IF pid = Dialer THEN s2c ELSE c2s

\* the socket of Peer pid reaches end-of-stream: the remote side has ended
\* the connection, by end() or, as a socket that is not half-open does, on
\* its own end-of-stream, and every byte it wrote has been delivered.  The
\* Peer handles the event when connect() subscribed it to 'end'.
SocketEnd ==
    \E pid \in {Dialer, Accepted} :
       /\ Alive(pid)
       /\ Remote(pid) \in ended \cup eos
       /\ pid \notin eos
       /\ Inbound(pid) = <<>>
       /\ eos' = eos \cup {pid}
       /\ LET r == IF "end" \in SocketListeners THEN SocketEventEnd(peers[pid])
                   ELSE Result(peers[pid], <<>>, FALSE)
          IN /\ peers' = [peers EXCEPT ![pid] = r.peer]
             /\ Emit(pid, r.peer, r.events)
       /\ UNCHANGED <<hostVars, codecVars, server, listens, listening, clock, phase, accepted, cliNotified,
                      c2s, s2c, ended, bcast, appSent, thrown, sockets, firstWritten>>

Next ==
    \/ Start
    \/ ServerListening
    \/ Tick
    \/ GenerateKeypair
    \/ Dial
    \/ SocketError
    \/ Accept
    \/ AttachPeer
    \/ SocketConnect
    \/ DataToNode
    \/ DataToDialer
    \/ AppSend
    \/ Broadcast
    \/ DisconnectCall
    \/ DisconnectDone
    \/ SocketEnd

Spec == Init /\ [][Next]_vars

(***************************************************************************)
(* Dialing specification: a Peer dials a Node that may not listen yet, the *)
(* attempts are refused until it does, the application sends as soon as    *)
(* the Peer has a transport, and the Node accepts the connection.          *)
(***************************************************************************)
NextDial ==
    \/ Listen
    \/ ServerListening
    \/ GenerateKeypair
    \/ Connect
    \/ ConnectionRefused
    \/ SocketConnect
    \/ SocketError
    \/ AppSend
    \/ Accept
    \/ DataToNode
    \/ DataToDialer

SpecDial == Init /\ [][NextDial]_vars

(***************************************************************************)
(* Send specification: one send() call on a Peer in any of the conditions  *)
(* a Peer can be in: before connect() there is no socket and no remote     *)
(* key; afterwards there is a socket, and the remote key is there once a   *)
(* SECURE frame came in.                                                   *)
(***************************************************************************)
MaxSendCalls == 2
SendStates == {Null, "connecting", "connected", "closed"}
LongPayload == Alloc(MaxPlain + 1)
SendCalls == Sends \cup {<<TEST, LongPayload>>, <<SECURE, LongPayload>>}

InitSend ==
    /\ \E st \in SendStates, k \in {NullId, DialerKey},
          remote \in {NullBytes, PublicOf(NodeKey)} :
         /\ st = Null => remote = NullBytes
         /\ tx = [NewPeer(BufferSize, 10) EXCEPT
                    !.state = st,
                    !.socket = IF st = Null THEN NullId ELSE 1,
                    !.keypair = k,
                    !.remotePublicKey = remote]
    /\ rx = NewPeer(BufferSize, 10)
    /\ wire = <<>>
    /\ written = <<>>
    /\ received = <<>>
    /\ rxEvents = <<>>
    /\ rxThrown = FALSE
    /\ fragmented = FALSE
    /\ NetIdle
    /\ HostIdle

\* tx.send(command, data), the socket taking the write or not; a closed
\* socket takes none
SendCall ==
    \E cd \in SendCalls, writable \in BOOLEAN :
       /\ Len(appSent) < MaxSendCalls
       /\ tx.state = "closed" => ~writable
       /\ LET r == Send(tx, writable, cd[1], cd[2])
          IN /\ wire' = wire \o r.written
             /\ appSent' = Append(appSent,
                                  [command |-> cd[1], data |-> cd[2],
                                   outcome |-> r.outcome])
       /\ UNCHANGED <<hostVars, tx, rx, written, received, rxEvents, rxThrown,
                      fragmented, peers, server, listens, listening, peerList, clock, phase,
                      accepted, cliNotified, c2s, s2c, ended, eos, peerEvents,
                      nodeEvents, registered, bcast, thrown, sockets,
                      firstWritten>>

NextSend == SendCall
SpecSend == InitSend /\ [][NextSend]_vars

(***************************************************************************)
(* Listening specification: the application calls listen() at any time,    *)
(* before and after Peers are registered.                                  *)
(***************************************************************************)
NextListen ==
    \/ Listen
    \/ ServerListening
    \/ Tick
    \/ AttachPeer
    \/ GenerateKeypair
    \/ Dial
    \/ Accept
    \/ SocketConnect

SpecListen == Init /\ [][NextListen]_vars

(***************************************************************************)
(* Host specification: the application puts an address string together     *)
(* from pieces and makes a Host of it.                                     *)
(***************************************************************************)
MaxPieces == 3
MaxHosts == 1

\* '10.1.1.1', '10.1.1.', '256', '1', '.', '::', ':', 'x', 'f0d0' and
\* '2607:f0d0:1002:0051:0000:0000:0000:0004'
Quad == <<49, 48, 46, 49, 46, 49, 46, 49>>
FullIPv6 ==
    <<50, 54, 48, 55, 58, 102, 48, 100, 48, 58, 49, 48, 48, 50, 58,
      48, 48, 53, 49, 58, 48, 48, 48, 48, 58, 48, 48, 48, 48, 58,
      48, 48, 48, 48, 58, 48, 48, 48, 52>>
Pieces == {Localhost, Quad, SubSeq(Quad, 1, 7), <<50, 53, 54>>, <<49>>,
           <<Dot>>, <<Colon, Colon>>, <<Colon>>, <<120>>,
           <<102, 48, 100, 48>>, FullIPv6}

\* the application extends the address string
TypePiece ==
    \E piece \in Pieces :
       /\ hosts = <<>>
       /\ Len(typed) < MaxPieces
       /\ typed' = Append(typed, piece)
       /\ UNCHANGED <<hosts, codecVars, netVars>>

\* new Host(address)
HostCall ==
    /\ Len(hosts) < MaxHosts
    /\ hosts' = Append(hosts, [input |-> Concat(typed),
                               host |-> NewHost(Concat(typed), DefaultPort)])
    /\ UNCHANGED <<typed, codecVars, netVars>>

NextHost == TypePiece \/ HostCall
SpecHost == Init /\ [][NextHost]_vars

(***************************************************************************)
(* Teardown specification: a connection is made and the dialer's           *)
(* application calls disconnect() or destroy().  The part of either call   *)
(* after its await runs once the transport operation has completed.        *)
(***************************************************************************)
NextClose ==
    \/ Listen
    \/ ServerListening
    \/ GenerateKeypair
    \/ Dial
    \/ Accept
    \/ SocketConnect
    \/ DataToNode
    \/ DataToDialer
    \/ SocketError
    \/ DisconnectCall
    \/ DisconnectDone
    \/ DestroyCall
    \/ DestroyDone
    \/ SocketEnd

SpecClose ==
    /\ Init
    /\ [][NextClose]_vars
    /\ WF_vars(DisconnectDone)
    /\ WF_vars(DestroyDone)

(***************************************************************************)
(* Claims about the codec.                                                 *)
(***************************************************************************)
Messages(ev) == SelectSeq(ev, LAMBDA e : e.event = "message")
Errors(ev) == SelectSeq(ev, LAMBDA e : e.event = "error")

\* rx as InitCodec makes it
FreshRx == [AllocBuffer(NewPeer(BufferSize, 10)) EXCEPT
              !.state = "connected", !.socket = 1, !.errorListeners = 1]

\* the notifications of one data event that carries the whole of `bytes'
AllAtOnce(bytes) ==
    IF bytes = <<>> THEN <<>> ELSE SocketEventData(FreshRx, bytes).events

\* the wire carried exactly one write, and rx has received all of it
OneWrite(kind) ==
    /\ Len(written) = 1
    /\ written[1].kind = kind
    /\ wire = <<>>

HasNul(command) == \E i \in 1..Len(command) : command[i] = 0
TxPlain == tx.keypair = NullId \/ tx.remotePublicKey = NullBytes

\* C3 as stated: the bytes of send(command, payload), command of at most 12
\* ASCII characters, make rx raise exactly one message notification, with the
\* command and the payload of the call.
C3_RoundTripAnyCommand ==
    (OneWrite("send") /\ Len(written[1].command) <= 12)
       => rxEvents = <<MessageEvent(written[1].command, written[1].data)>>

\* C3 amended: the same for a command other than SECURE with no NUL character,
\* sent without the transform, in a frame no longer than rx's buffer.
C3_RoundTrip ==
    (/\ OneWrite("send")
     /\ Len(written[1].command) <= 12
     /\ written[1].command # SECURE
     /\ ~HasNul(written[1].command)
     /\ TxPlain
     /\ Len(received) <= rx.bufferSize)
       => /\ rxEvents = <<MessageEvent(written[1].command, written[1].data)>>
          /\ ~rxThrown

\* a payload holding a whole frame went round, in more than one data event
C3_Witness ==
    /\ OneWrite("send")
    /\ written[1].command = TEST
    /\ written[1].data = Frame(TEST, <<7>>)
    /\ fragmented
    /\ rxEvents = <<MessageEvent(TEST, Frame(TEST, <<7>>))>>

\* C4 as stated: however the stream received so far was cut into data events,
\* rx has raised the message notifications of the one data event carrying it.
C4_AnyStream == Messages(rxEvents) = Messages(AllAtOnce(received))

\* C4 amended: the same for a stream no longer than rx's buffer.
C4_Fragmentation ==
    Len(received) <= rx.bufferSize
       => Messages(rxEvents) = Messages(AllAtOnce(received))

\* two frames arrived in data events that cut the stream inside a frame
C4_Witness ==
    /\ fragmented
    /\ Len(Messages(rxEvents)) = 2
    /\ Len(received) <= rx.bufferSize
    /\ wire = <<>>

\* a structurally complete frame whose tag is not the one recomputed from
\* its command and payload
BadTagFrame(bytes) ==
    /\ Len(bytes) >= 24
    /\ ReadWord(bytes, 0) = Header
    /\ Len(bytes) = 24 + UInt32(ReadWord(bytes, 16))
    /\ ReadWord(bytes, 20) #
          CalculateChecksum(CommandOf(Slice(bytes, 4, 16)),
                            Slice(bytes, 24, Len(bytes)))

\* C5: a complete frame with a wrong tag raises no message and no error,
\* stores no remote key, and its bytes leave the buffer.
C5_BadTagDiscarded ==
    (OneWrite("raw") /\ BadTagFrame(written[1].data))
       => /\ rxEvents = <<>>
          /\ rx.remotePublicKey = NullBytes
          /\ rx.inCursor = 0

(***************************************************************************)
(* Claims about dialing, the registry and broadcast.                       *)
(***************************************************************************)
\* the notifications Peer pid raises in a step
NewEvents(pid) ==
    SubSeq(peerEvents'[pid], Len(peerEvents[pid]) + 1, Len(peerEvents'[pid]))

\* the notifications of this kind the Node raises for Peer pid in a step
NewNodeEvents(pid, kind) ==
    {i \in (Len(nodeEvents) + 1)..Len(nodeEvents') :
        nodeEvents'[i].event = kind /\ nodeEvents'[i].peer = pid}

\* the send() calls of the last broadcast on Peer pid
BroadcastCalls(pid) ==
    {i \in 1..Len(bcast.calls) : bcast.calls[i].peer = pid}

\* the payloads passed to the dialer's send(), by the application and by a
\* broadcast of the Node it is attached to
DialerPayloads ==
    {appSent[i].data : i \in 1..Len(appSent)}
        \cup {bcast.data : i \in BroadcastCalls(Dialer)}

\* C1, as claimed: when the dialer has a key pair (the Peer the Node made for
\* its connection always has one), every message notification of that Peer
\* carries a payload that was passed to the dialer's send(), whenever the
\* dialer sent it.
C1_TransformRoundTrip ==
    peers[Dialer].keypair # NullId
        => \A i \in 1..Len(peerEvents[Accepted]) :
              peerEvents[Accepted][i].event = "message"
                  => peerEvents[Accepted][i].data \in DialerPayloads

\* C2, as claimed: the reconnection counter of a dialing Peer never exceeds
\* the configured maximum.
C2_RetriesStop ==
    peers[Dialer].connectionAttempts <= peers[Dialer].maxConnectionAttempts

\* C6, as claimed: when a registered Peer raises end or error, right after
\* the step no registry entry maps to it, the Node has re-raised the
\* notification for it exactly once, and the Peer is not registered again.
C6_RegistryLifecycle ==
    [][\A pid \in PeerIds : \A kind \in {"end", "error"} :
          (pid \in registered /\ Raised(NewEvents(pid), {kind}))
              => /\ Entries(peerList', pid) = {}
                 /\ Cardinality(NewNodeEvents(pid, kind)) = 1
                 /\ peers'[pid].nodeHandlers = peers[pid].nodeHandlers]_vars

\* C7, as claimed: the registry holds exactly one entry for every Peer that
\* was registered and has raised no end or error since, and none for any
\* other Peer.
C7_RegistryEntries ==
    \A pid \in PeerIds :
       Cardinality(Entries(peerList, pid)) = IF pid \in registered THEN 1 ELSE 0

\* C8, as claimed: in the step in which the transport of a Peer reaches
\* end-of-stream the Peer becomes closed and raises end, and the registry
\* entry of a registered Peer is removed.
C8_EndOfStream ==
    [][\A pid \in PeerIds :
          (pid \notin eos /\ pid \in eos')
              => /\ peers'[pid].state = "closed"
                 /\ Raised(NewEvents(pid), {"end"})
                 /\ (pid \in registered => Entries(peerList', pid) = {})]_vars

\* C9, as claimed: once every byte of a broadcast made while the dialer's
\* connection was up has been delivered, the dialer has raised exactly one
\* message notification, with the command and payload of the broadcast.
C9_BroadcastDelivered ==
    (bcast.count = 1 /\ Accepted \in bcast.remote /\ s2c = <<>>)
        => Messages(peerEvents[Dialer])
              = <<MessageEvent(bcast.command, bcast.data)>>

\* C10, as claimed: a broadcast calls send() exactly once on every Peer that
\* is in the registry when it starts.
C10_BroadcastOncePerPeer ==
    bcast.count > 0
        => \A pid \in bcast.targets : Cardinality(BroadcastCalls(pid)) = 1

\* C11, as claimed: in the step in which the dialer raises its connect
\* notification the Node has already registered the inbound connection, so
\* that a broadcast made in the connect handler has the connection's Peer
\* among its targets.
C11_RegisteredAtConnect ==
    [][Raised(NewEvents(Dialer), {"connect"})
          => Accepted \in Range(peerList)]_vars

\* C12: a Peer with a key pair that has a transport has written, as the
\* first write to that transport, the SECURE frame of its public key.
C12_SecureFirst ==
    \A pid \in PeerIds :
       (peers[pid].keypair # NullId /\ peers[pid].socket # NullId)
           => firstWritten[pid] = Frame(SECURE, PublicOf(peers[pid].keypair))

\* a dialer with a key pair was refused and dialed again, the application
\* sent on the new transport, and the Node accepted the connection
C12_Witness ==
    /\ peers[Dialer].keypair = DialerKey
    /\ sockets >= 2
    /\ accepted
    /\ \E i \in 1..Len(appSent) : appSent[i].outcome = "true"
    /\ firstWritten[Dialer] = Frame(SECURE, PublicOf(DialerKey))
    /\ firstWritten[Accepted] = Frame(SECURE, PublicOf(NodeKey))

\* the one write was send('SECURE', data), in a frame that fits rx's buffer
OneSecure ==
    /\ OneWrite("send")
    /\ written[1].command = SECURE
    /\ Len(received) <= rx.bufferSize

NoSecureMessage(ev) ==
    \A i \in 1..Len(ev) : ev[i].event = "message" => ev[i].command # SECURE

\* C13, as claimed: rx stores the payload of a SECURE frame as its remote
\* key and raises no message notification for it, and no message
\* notification ever has the command SECURE.
C13_SecureKeyIsPayload ==
    /\ OneSecure => (rx.remotePublicKey = written[1].data /\ rxEvents = <<>>)
    /\ NoSecureMessage(rxEvents)

\* C13 amended: the key rx stores is the text decoding of the payload, which
\* is the payload when the payload is ASCII text.
C13_SecureStored ==
    /\ OneSecure => /\ rx.remotePublicKey = BufferToString(written[1].data)
                    /\ rxEvents = <<>>
    /\ NoSecureMessage(rxEvents)

\* a public key arrived in a SECURE frame cut into several data events
C13_Witness ==
    /\ OneSecure
    /\ written[1].data = PublicOf(2)
    /\ fragmented
    /\ rx.remotePublicKey = PublicOf(2)
    /\ rxEvents = <<>>

\* C14, as claimed: once a data event has overflowed the buffer of rx and
\* the error notification was raised, no step buffers a byte or raises a
\* message notification, whatever is called on rx.
C14_OverflowTerminal ==
    [][Errors(rxEvents) # <<>>
          => /\ Messages(rxEvents') = Messages(rxEvents)
             /\ rx'.inCursor <= rx.inCursor]_vars

\* C15: generateKeypair() on any Peer sets the key pair when the state is
\* null, and in every other state throws and leaves the Peer as it was.
C15_KeypairOnlyUnstarted ==
    \A pid \in PeerIds :
       LET r == PeerGenerateKeypair(peers[pid], DialerKey)
       IN IF peers[pid].state = Null
          THEN ~r.thrown /\ r.peer.keypair = DialerKey
                         /\ r.peer.state = Null
          ELSE r.thrown /\ r.peer = peers[pid]

\* a Peer that generated its key pair and is destroying its connection
C15_Witness ==
    /\ peers[Dialer].keypair = DialerKey
    /\ peers[Dialer].state = "destroying"
    /\ peers[Accepted].state = "connected"

Closes(pid) == SelectSeq(peerEvents[pid], LAMBDA e : e.event = "close")

\* C16: a connected Peer leaves "connected" only to "disconnecting" or
\* "destroying", with the transport operation called and no close raised;
\* it leaves those only to "closed", raising its one close notification in
\* that step, which comes after the transport operation; and it does leave
\* them.
C16_Teardown ==
    /\ [][LET before == peers[Dialer].state
              after == peers'[Dialer].state
              closed == Len(Closes(Dialer)') - Len(Closes(Dialer))
          IN /\ (before = "connected" /\ after # before)
                   => /\ after \in {"disconnecting", "destroying"}
                      /\ Dialer \in ended'
                      /\ closed = 0
             /\ (before \in {"disconnecting", "destroying"} /\ after # before)
                   => /\ after = "closed"
                      /\ closed = 1
             /\ closed > 0
                   => /\ before \in {"disconnecting", "destroying"}
                      /\ Dialer \in ended
                      /\ Len(Closes(Dialer)') = 1]_vars
    /\ (peers[Dialer].state = "disconnecting") ~> (peers[Dialer].state = "closed")
    /\ (peers[Dialer].state = "destroying") ~> (peers[Dialer].state = "closed")

\* the dialer closed after destroy() while the Node's Peer was connected
C16_Witness ==
    /\ peers[Dialer].state = "closed"
    /\ Len(Closes(Dialer)) = 1
    /\ Dialer \in ended
    /\ accepted

\* C17: send() never rejects: every call completes with true or with false.
C17_SendNeverRejects ==
    \A i \in 1..Len(appSent) : appSent[i].outcome \in {"true", "false"}

\* a step in which Peer pid fails or is disconnected: it raises an error or
\* an end notification, or its state goes to disconnecting or to closed
Fails(pid) ==
    \/ Raised(NewEvents(pid), {"error", "end"})
    \/ /\ peers'[pid].state # peers[pid].state
       /\ peers'[pid].state \in {"disconnecting", "destroying", "closed"}

\* C18: a step in which one Peer fails or is disconnected leaves the other
\* Peer registered with the Node as it was: its registry entries, its state,
\* its buffer and cursor and its keys.
C18_FailureIsolated ==
    [][\A pid \in PeerIds :
          (Fails(pid) /\ Remote(pid) \in Range(peerList))
             => /\ Entries(peerList', Remote(pid)) = Entries(peerList, Remote(pid))
                /\ peers'[Remote(pid)] = peers[Remote(pid)]]_vars

\* the message notifications the Node raises for Peer pid in a step, in order
NewNodeMessages(pid) ==
    SelectSeq(SubSeq(nodeEvents', Len(nodeEvents) + 1, Len(nodeEvents')),
              LAMBDA e : e.event = "message" /\ e.peer = pid)

\* C19: in every step, the message notifications of a Peer that is in the
\* registry are raised by the Node once each, in order, with the same peer,
\* command and payload.
C19_MessageReRaisedOnce ==
    [][\A pid \in PeerIds :
          pid \in Range(peerList)
             => LET m == Messages(NewEvents(pid))
                    n == NewNodeMessages(pid)
                IN /\ Len(n) = Len(m)
                   /\ \A i \in 1..Len(m) :
                         /\ i <= Len(n)
                         /\ n[i].command = m[i].command
                         /\ n[i].data = m[i].data]_vars

\* the nodeListening notifications of the Node
NodeListenings(ev) == SelectSeq(ev, LAMBDA e : e.event = "nodeListening")

\* C20: whatever the number of listen() calls, the Node has made one server
\* once listen() was called and none before; nodeListening is raised at most
\* once, in the step in which that server is bound; and a listen() call on a
\* Node that has a server leaves the server, its binding, the registry and
\* the notifications as they were.
C20_ListenIdempotent ==
    /\ [](/\ server = (IF listens = 0 THEN NullId ELSE 1)
          /\ Len(NodeListenings(nodeEvents)) = listening
          /\ listening <= 1)
    /\ [][/\ (listens' # listens /\ server # NullId)
                => /\ server' = server
                   /\ listening' = listening
                   /\ peerList' = peerList
                   /\ nodeEvents' = nodeEvents
          /\ Len(NodeListenings(nodeEvents')) # Len(NodeListenings(nodeEvents))
                => /\ listening = 0
                   /\ listening' = 1
                   /\ server' = server]_vars

\* listen() was called more than once, the one server is bound and a Peer
\* is registered
C20_Witness ==
    /\ listens = MaxListens
    /\ server = 1
    /\ listening = 1
    /\ Len(NodeListenings(nodeEvents)) = 1
    /\ Accepted \in Range(peerList)

\* C21: new Host(address) succeeds exactly when address is an IPv4 literal,
\* an IPv6 literal or 'localhost'; the family is that of the literal, and
\* 'localhost' gives 127.0.0.1 with family IPv4.
C21_HostAddress ==
    \A i \in 1..Len(hosts) :
       LET in == hosts[i].input
           h == hosts[i].host
       IN /\ h.ok <=> (IsIPv4(in) \/ IsIPv6(in) \/ in = Localhost)
          /\ (h.ok /\ IsIPv4(in)) => (h.family = "IPv4" /\ h.address = in)
          /\ (h.ok /\ IsIPv6(in)) => (h.family = "IPv6" /\ h.address = in)
          /\ in = Localhost => (h.ok /\ h.family = "IPv4" /\ h.address = Loopback)

\* C22: a transport error on a Peer that is connected, disconnecting,
\* destroying or closed raises one error notification and nothing else: no
\* transport is made, nothing is written, and the Peer, with its counter and
\* its state, is as before.
C22_ErrorOutsideConnecting ==
    \A pid \in PeerIds :
       peers[pid].state \in {"connected", "disconnecting", "destroying", "closed"}
          => LET r == SocketEventError(peers[pid], sockets + 1)
             IN /\ r.events = <<ErrorEvent>>
                /\ ~r.created
                /\ r.written = <<>>
                /\ r.peer = peers[pid]

\* the connected dialer's transport has raised an error: the Peer raised its
\* one error notification and is still connected on its first transport
C22_Witness ==
    /\ Errors(peerEvents[Dialer]) = <<ErrorEvent>>
    /\ peers[Dialer].state = "connected"
    /\ peers[Dialer].connectionAttempts = 0
    /\ peers[Dialer].socket = 1
    /\ sockets = 1

Connects(ev) == SelectSeq(ev, LAMBDA e : e.event = "connect")

C30_ScanInBounds ==
    (rx.errorListeners > 0 /\ rx.remotePublicKey = NullBytes) => ~rxThrown

\* the message notifications the frames of the send() calls w stand for, in
\* the order of the calls: the command as the receiver reads the command
\* field, the payload as it was passed
RECURSIVE Surfaced(_)
Surfaced(w) ==
    IF w = <<>> THEN <<>>
    ELSE IF Head(w).command = SECURE THEN Surfaced(Tail(w))
    ELSE <<MessageEvent(CommandOf(CommandField(Head(w).command)), Head(w).data)>>
             \o Surfaced(Tail(w))

IsPrefix(a, b) == Len(a) <= Len(b) /\ a = SubSeq(b, 1, Len(a))

\* no key material, no corruption, no overflow: the sender has no key pair
\* and wrote frames only, with commands of text (no NUL character), a SECURE
\* frame if any being the last, and the receiver has raised no error
CleanStream ==
    /\ tx.keypair = NullId
    /\ \A i \in 1..Len(written) :
          /\ written[i].kind = "send"
          /\ ~HasNul(written[i].command)
          /\ written[i].command = SECURE => i = Len(written)
    /\ Errors(rxEvents) = <<>>

\* C24: while the connection is clean, the message notifications are the
\* first ones of the frames written, in order and once each; and they are
\* all of them when no data event is to come, because no byte is in flight
\* or because the receiving process has stopped.
C24_InOrderOnce ==
    CleanStream
       => /\ IsPrefix(Messages(rxEvents), Surfaced(written))
          /\ (wire = <<>> \/ rxThrown)
                => Messages(rxEvents) = Surfaced(written)

\* the bytes the accumulation buffer holds
Held(p) == Slice(p.inBuffer, 0, p.inCursor)

IsSuffix(a, b) ==
    Len(a) <= Len(b) /\ a = SubSeq(b, Len(b) - Len(a) + 1, Len(b))

\* C25: after the data events so far, none of which overflowed, on a Peer
\* without a remote key, the buffer holds the last bytes received, as they
\* were received, and no complete frame: a scan of it finds none.
C25_BufferIsUnconsumedTail ==
    (~Poisoned(rx) /\ rx.remotePublicKey = NullBytes /\ received # <<>>)
       => /\ IsSuffix(Held(rx), received)
          /\ ScanLoop(rx, 0, 0, <<>>).messageEnd = 0

\* noise without the magic came first, then one frame with a command of
\* text other than SECURE, and the whole fits the buffer
NoiseThenFrame ==
    /\ Len(written) = 2
    /\ written[1].kind = "raw"
    /\ ~Includes(written[1].data, Header)
    /\ written[2].kind = "send"
    /\ written[2].command # SECURE
    /\ ~HasNul(written[2].command)
    /\ Len(received) + Len(wire) <= rx.bufferSize

\* C26: after noise without the magic and one frame, the receiver raises no
\* message but that of the frame, and has raised it once all the bytes are
\* in, however they were cut into data events.
C26_NoiseSkipped ==
    NoiseThenFrame
       => /\ IsPrefix(Messages(rxEvents), Surfaced(<<written[2]>>))
          /\ wire = <<>> => Messages(rxEvents) = Surfaced(<<written[2]>>)

\* C27: the frame of a send() without the transform whose command is longer
\* than 12 characters makes the receiver raise one message notification,
\* with the first 12 characters of the command and the payload of the call.
C27_LongCommandTruncated ==
    (OneWrite("send") /\ Len(written[1].command) > 12 /\ TxPlain)
       => rxEvents = <<MessageEvent(SubSeq(written[1].command, 1, 12),
                                    written[1].data)>>

\* C28: when the dialer has no key pair (the Node has one), the payload of
\* every message notification of the Node's Peer was passed to the dialer's
\* send(), the payload of every message notification of the dialer was
\* passed to broadcast(), and no payload that was sent as it is goes through
\* the transform on receipt: no data handler throws in it.
C28_OneSidedKeys ==
    peers[Dialer].keypair = NullId
       => /\ \A i \in 1..Len(peerEvents[Accepted]) :
                peerEvents[Accepted][i].event = "message"
                   => peerEvents[Accepted][i].data \in DialerPayloads
          /\ \A i \in 1..Len(peerEvents[Dialer]) :
                peerEvents[Dialer][i].event = "message"
                   => /\ BroadcastCalls(Accepted) # {}
                      /\ peerEvents[Dialer][i].data = bcast.data
          /\ thrown = {}

\* C29: no entry of the registry maps to a closed Peer, and no broadcast
\* calls send() on a Peer that was closed when it started.
C29_NoClosedPeerRegistered ==
    /\ [](\A h \in DOMAIN peerList : peers[peerList[h]].state # "closed")
    /\ [][bcast'.count > bcast.count
             => \A i \in 1..Len(bcast'.calls) :
                   peers[bcast'.calls[i].peer].state # "closed"]_vars

\* C31: from a state in which the dialer is closed, no step changes its
\* state and no step makes it raise a connect or a message notification.
C31_ClosedIsTerminal ==
    [][peers[Dialer].state = "closed"
          => /\ peers'[Dialer].state = "closed"
             /\ ~Raised(NewEvents(Dialer), {"connect", "message"})]_vars

====
